---- MODULE Spec2Model ----
(***************************************************************************)
(* Model of hippocampus_common.node.Node: the constructor, run(), and the  *)
(* static helpers get_param and set_param, over the ROS parameter server   *)
(* (a name -> value store owned by the ROS master) and the ROS log.        *)
(***************************************************************************)
EXTENDS Integers, Sequences, FiniteSets

\* ------------------------------------------------------------ bounds
\* Longest user string stored on the parameter server.
MaxLen == 3
\* Largest value of the limit argument (the smallest is -1).
MaxLimit == 2
\* Calls of rospy.spin that may return before ROS is shut down.
MaxSpins == 6

\* ------------------------------------------------------------ values
\* A Python value: a str, an int, a bool or None.  Two further markers are
\* not Python values: Absent (the server holds nothing under a name, so
\* rospy.get_param raises KeyError) and NoReturn (the call raised).
PyStr(s) == [kind |-> "str", s |-> s, n |-> 0]
PyInt(n) == [kind |-> "int", s |-> <<>>, n |-> n]
PyBool(b) == [kind |-> "bool", s |-> <<>>, n |-> IF b THEN 1 ELSE 0]
None == [kind |-> "none", s |-> <<>>, n |-> 0]
Absent == [kind |-> "absent", s |-> <<>>, n |-> 0]
NoReturn == [kind |-> "noreturn", s |-> <<>>, n |-> 0]

Alphabet == <<"a", "b", "c", "d", "e", "f", "g", "h">>
Word(n) == [i \in 1..n |-> Alphabet[i]]

\* The values a caller passes: the falsy "" and 0, and a string of MaxLen characters.
Values == {PyStr(<<>>), PyStr(Word(MaxLen)), PyInt(0)}
Names == {"p", "q"}
Limits == -1..MaxLimit
Stores == [Names -> Values \cup {Absent}]

\* ------------------------------------------------------------ formatting
Digit(d) == <<"0", "1", "2", "3", "4", "5", "6", "7", "8", "9">>[d + 1]

RECURSIVE Digits(_)
Digits(n) == IF n < 10 THEN <<Digit(n)>> ELSE Digits(n \div 10) \o <<Digit(n % 10)>>

\* "{}".format(v)
FormatValue(v) ==
    CASE v.kind = "str" -> v.s
      [] v.kind = "int" -> Digits(v.n)
      [] v.kind = "bool" -> IF v.n = 1 THEN <<"T", "r", "u", "e">>
                                       ELSE <<"F", "a", "l", "s", "e">>
      [] OTHER -> <<"N", "o", "n", "e">>

Ellipsis == <<".", ".", ".">>

\* s[:limit] for limit >= 0
Prefix(s, limit) == SubSeq(s, 1, IF limit < Len(s) THEN limit ELSE Len(s))

TruncateNoEllipsis(s, limit) ==
    IF limit > 0 /\ Len(s) > limit THEN Prefix(s, limit) ELSE s

\* if limit > 0 and len(s) > limit: s = s[:limit] + "..."
Truncate(s, limit) ==
    IF limit > 0 /\ Len(s) > limit THEN Prefix(s, limit) \o Ellipsis ELSE s

\* ------------------------------------------------------------ rospy
\* rospy.get_param(name): the stored value, KeyError (Absent) when there is none.
rospy_get_param(st, name) == st[name]

\* rospy.set_param(name, value)
rospy_set_param(st, name, value) == [st EXCEPT ![name] = value]

\* rospy.get_name(): the registered name, "/unnamed" before rospy.init_node.
Unnamed == [base |-> "unnamed", anon |-> FALSE]
NodeNames == {"my_simple_node"}

\* One logged message: rospy.loginfo / rospy.logwarn with the formatted text.
Msg(level, what, me, name, text) ==
    [level |-> level, what |-> what, node |-> me, name |-> name, text |-> text]

Outcome(st, how, ret, msgs) ==
    [store |-> st, outcome |-> how, ret |-> ret, msgs |-> msgs]

\* ------------------------------------------------------------ get_param
\* fail: "none", "read" (rospy.get_param raises something other than
\* KeyError) or "write" (rospy.set_param raises).
GetParamFalsyDefault(st, me, name, default, verbose, limit, fail) ==
    IF fail = "read" THEN Outcome(st, "raised", NoReturn, <<>>)
    ELSE IF rospy_get_param(st, name) # Absent
    THEN Outcome(st, "returned", rospy_get_param(st, name),
                 IF verbose
                 THEN <<Msg("info", "value", me, name,
                            Truncate(FormatValue(rospy_get_param(st, name)), limit))>>
                 ELSE <<>>)
    ELSE IF default \in {None, PyStr(<<>>), PyInt(0), PyBool(FALSE)}
    THEN Outcome(st, "returned", default,
                 <<Msg("warn", "no_default", me, name, <<>>)>>)
    ELSE IF fail = "write" THEN Outcome(st, "raised", NoReturn, <<>>)
    ELSE Outcome(rospy_set_param(st, name, default), "returned", default,
                 <<Msg("warn", "using_default", me, name, FormatValue(default))>>)

GetParamLogsTruncated(st, me, name, default, verbose, limit, fail) ==
    IF fail = "read" THEN Outcome(st, "raised", NoReturn, <<>>)
    ELSE IF rospy_get_param(st, name) # Absent
    THEN Outcome(st, "returned",
                 IF verbose
                 THEN PyStr(Truncate(FormatValue(rospy_get_param(st, name)), limit))
                 ELSE rospy_get_param(st, name),
                 IF verbose
                 THEN <<Msg("info", "value", me, name,
                            Truncate(FormatValue(rospy_get_param(st, name)), limit))>>
                 ELSE <<>>)
    ELSE IF default = None
    THEN Outcome(st, "returned", default,
                 <<Msg("warn", "no_default", me, name, <<>>)>>)
    ELSE IF fail = "write" THEN Outcome(st, "raised", NoReturn, <<>>)
    ELSE Outcome(rospy_set_param(st, name, default), "returned", default,
                 <<Msg("warn", "using_default", me, name, FormatValue(default))>>)

GetParamWritesNone(st, me, name, default, verbose, limit, fail) ==
    IF fail = "read" THEN Outcome(st, "raised", NoReturn, <<>>)
    ELSE IF rospy_get_param(st, name) # Absent
    THEN Outcome(st, "returned", rospy_get_param(st, name),
                 IF verbose
                 THEN <<Msg("info", "value", me, name,
                            Truncate(FormatValue(rospy_get_param(st, name)), limit))>>
                 ELSE <<>>)
    ELSE IF fail = "write" THEN Outcome(st, "raised", NoReturn, <<>>)
    ELSE Outcome(rospy_set_param(st, name, default), "returned", default,
                 <<Msg("warn", "using_default", me, name, FormatValue(default))>>)

GetParamLogsBeforeWrite(st, me, name, default, verbose, limit, fail) ==
    IF fail = "read" THEN Outcome(st, "raised", NoReturn, <<>>)
    ELSE IF rospy_get_param(st, name) # Absent
    THEN Outcome(st, "returned", rospy_get_param(st, name),
                 IF verbose
                 THEN <<Msg("info", "value", me, name,
                            Truncate(FormatValue(rospy_get_param(st, name)), limit))>>
                 ELSE <<>>)
    ELSE IF default = None
    THEN Outcome(st, "returned", default,
                 <<Msg("warn", "no_default", me, name, <<>>)>>)
    ELSE IF fail = "write"
    THEN Outcome(st, "raised", NoReturn,
                 <<Msg("warn", "using_default", me, name, FormatValue(default))>>)
    ELSE Outcome(rospy_set_param(st, name, default), "returned", default,
                 <<Msg("warn", "using_default", me, name, FormatValue(default))>>)

GetParamAlsoLogsValue(st, me, name, default, verbose, limit, fail) ==
    IF fail = "read" THEN Outcome(st, "raised", NoReturn, <<>>)
    ELSE IF rospy_get_param(st, name) # Absent
    THEN Outcome(st, "returned", rospy_get_param(st, name),
                 IF verbose
                 THEN <<Msg("info", "value", me, name,
                            Truncate(FormatValue(rospy_get_param(st, name)), limit))>>
                 ELSE <<>>)
    ELSE IF default = None
    THEN Outcome(st, "returned", default,
                 <<Msg("warn", "no_default", me, name, <<>>)>>)
    ELSE IF fail = "write" THEN Outcome(st, "raised", NoReturn, <<>>)
    ELSE Outcome(rospy_set_param(st, name, default), "returned", default,
                 <<Msg("warn", "using_default", me, name, FormatValue(default))>>
                 \o (IF verbose
                     THEN <<Msg("info", "value", me, name,
                                Truncate(FormatValue(default), limit))>>
                     ELSE <<>>))

GetParamResets(st, me, name, default, verbose, limit, fail) ==
    IF fail = "read" THEN Outcome(st, "raised", NoReturn, <<>>)
    ELSE IF rospy_get_param(st, name) # Absent /\ default = None
    THEN Outcome(st, "returned", rospy_get_param(st, name),
                 IF verbose
                 THEN <<Msg("info", "value", me, name,
                            Truncate(FormatValue(rospy_get_param(st, name)), limit))>>
                 ELSE <<>>)
    ELSE IF default = None
    THEN Outcome(st, "returned", default,
                 <<Msg("warn", "no_default", me, name, <<>>)>>)
    ELSE IF fail = "write" THEN Outcome(st, "raised", NoReturn, <<>>)
    ELSE Outcome(rospy_set_param(st, name, default), "returned", default,
                 <<Msg("warn", "using_default", me, name, FormatValue(default))>>)

\* Node.get_param(name, default, verbose, limit)
GetParamOutcome(st, me, name, default, verbose, limit, fail) ==
    IF fail = "read" THEN Outcome(st, "raised", NoReturn, <<>>)
    ELSE IF rospy_get_param(st, name) # Absent
    THEN Outcome(st, "returned", rospy_get_param(st, name),
                 IF verbose
                 THEN <<Msg("info", "value", me, name,
                            Truncate(FormatValue(rospy_get_param(st, name)), limit))>>
                 ELSE <<>>)
    ELSE IF default = None
    THEN Outcome(st, "returned", default,
                 <<Msg("warn", "no_default", me, name, <<>>)>>)
    ELSE IF fail = "write" THEN Outcome(st, "raised", NoReturn, <<>>)
    ELSE Outcome(rospy_set_param(st, name, default), "returned", default,
                 <<Msg("warn", "using_default", me, name, FormatValue(default))>>)

\* ------------------------------------------------------------ set_param
SetParamStoresLogged(st, me, name, value, verbose, limit, fail) ==
    IF fail = "write" THEN Outcome(st, "raised", NoReturn, <<>>)
    ELSE Outcome(rospy_set_param(st, name, PyStr(Truncate(FormatValue(value), limit))),
                 "returned", None,
                 <<Msg("info", "value", me, name, Truncate(FormatValue(value), limit))>>)

\* Node.set_param(name, value, verbose, limit); verbose is not read.
SetParamOutcome(st, me, name, value, verbose, limit, fail) ==
    IF fail = "write" THEN Outcome(st, "raised", NoReturn, <<>>)
    ELSE Outcome(rospy_set_param(st, name, value), "returned", None,
                 <<Msg("info", "value", me, name, Truncate(FormatValue(value), limit))>>)

\* ------------------------------------------------------------ state
VARIABLES
    pc,         \* where the main thread is: "new", "ready", the places of run(), "done", "raised"
    node,       \* what rospy.init_node registered
    store,      \* the parameter server: name -> value or Absent
    call,       \* the latest call of the Node API, with what it returned and logged
    shutdown,   \* rospy.is_shutdown()
    observed,   \* what run() last read from rospy.is_shutdown()
    entryFlag,  \* the shutdown flag when run() was entered
    spins,      \* calls of rospy.spin made by run()
    initial,    \* history: the store the program started with
    lastSet,    \* history: per name, the value of the latest set_param that returned
    firstDef,   \* history: per name, the default of the first get_param that wrote one
    gp,         \* the frame of a get_param in progress beside other clients
    intervened  \* another client wrote gp.name after get_param's last access to the store

vars == <<pc, node, store, call, shutdown, observed, entryFlag, spins,
          initial, lastSet, firstDef, gp, intervened>>
concVars == <<gp, intervened>>
runVars == <<shutdown, observed, entryFlag, spins>>
histVars == <<initial, lastSet, firstDef>>

\* limit=80 * 5
DefaultLimit == 400

NoNode == [base |-> "unnamed", anon |-> FALSE, registered |-> FALSE]

get_name == IF node.registered THEN [base |-> node.base, anon |-> node.anon] ELSE Unnamed

Call(op, name, arg, verbose, limit, fail, pre, how, ret, msgs) ==
    [op |-> op, name |-> name, arg |-> arg, verbose |-> verbose, limit |-> limit,
     fail |-> fail, pre |-> pre, outcome |-> how, ret |-> ret, msgs |-> msgs]

NoCall == Call("none", "", None, FALSE, 0, "none", [k \in Names |-> Absent],
               "none", NoReturn, <<>>)

NoFrame == [pc |-> "idle", name |-> "", default |-> None, param |-> NoReturn,
            msgs |-> <<>>]

Init ==
    /\ pc = "new"
    /\ node = NoNode
    /\ store \in Stores
    /\ call = NoCall
    /\ shutdown = FALSE
    /\ observed = FALSE
    /\ entryFlag = FALSE
    /\ spins = 0
    /\ initial = [k \in Names |-> Absent]
    /\ lastSet = [k \in Names |-> Absent]
    /\ firstDef = [k \in Names |-> Absent]
    /\ gp = NoFrame
    /\ intervened = FALSE

\* ------------------------------------------------------------ __init__
ConstructLogsFirst(name, anonymous, disable_signals, fail) ==
    IF fail
    THEN [node |-> NoNode, outcome |-> "raised",
          msgs |-> <<Msg("info", "initialized", Unnamed, "", <<>>)>>]
    ELSE [node |-> [base |-> name, anon |-> anonymous, registered |-> TRUE],
          outcome |-> "returned",
          msgs |-> <<Msg("info", "initialized",
                         [base |-> name, anon |-> anonymous], "", <<>>)>>]

\* Node.__init__(name, anonymous, disable_signals); fail: rospy.init_node raises.
ConstructOutcome(name, anonymous, disable_signals, fail) ==
    IF fail
    THEN [node |-> NoNode, outcome |-> "raised", msgs |-> <<>>]
    ELSE [node |-> [base |-> name, anon |-> anonymous, registered |-> TRUE],
          outcome |-> "returned",
          msgs |-> <<Msg("info", "initialized",
                         [base |-> name, anon |-> anonymous], "", <<>>)>>]

Construct ==
    /\ pc = "new"
    /\ \E name \in NodeNames, anonymous \in BOOLEAN, disable_signals \in BOOLEAN,
          fail \in BOOLEAN :
          LET r == ConstructOutcome(name, anonymous, disable_signals, fail)
          IN  /\ node' = r.node
              /\ pc' = IF r.outcome = "raised" THEN "raised" ELSE "ready"
              /\ call' = Call("init", name, None, FALSE, 0,
                              IF fail THEN "init" ELSE "none", store,
                              r.outcome, IF fail THEN NoReturn ELSE None, r.msgs)
    /\ UNCHANGED <<store, runVars, histVars, concVars>>

\* ------------------------------------------------------------ calls
DoGetParam(name, default, verbose, limit, fail) ==
    LET r == GetParamOutcome(store, get_name, name, default, verbose, limit, fail)
    IN  /\ store' = r.store
        /\ call' = Call("get", name, default, verbose, limit, fail, store,
                        r.outcome, r.ret, r.msgs)

DoSetParam(name, value, verbose, limit, fail) ==
    LET r == SetParamOutcome(store, get_name, name, value, verbose, limit, fail)
    IN  /\ store' = r.store
        /\ call' = Call("set", name, value, verbose, limit, fail, store,
                        r.outcome, r.ret, r.msgs)

\* The helpers are static: they are callable before and after the constructor,
\* but not while the only thread is inside run().
GetParam ==
    /\ pc \in {"new", "ready"}
    /\ \E name \in Names, default \in Values \cup {None}, verbose \in BOOLEAN,
          limit \in Limits, fail \in {"none", "read", "write"} :
          DoGetParam(name, default, verbose, limit, fail)
    /\ UNCHANGED <<pc, node, runVars, histVars, concVars>>

SetParam ==
    /\ pc \in {"new", "ready"}
    /\ \E name \in Names, value \in Values, verbose \in BOOLEAN,
          limit \in Limits, fail \in {"none", "write"} :
          DoSetParam(name, value, verbose, limit, fail)
    /\ UNCHANGED <<pc, node, runVars, histVars, concVars>>

Next == Construct \/ GetParam \/ SetParam

Spec == Init /\ [][Next]_vars

\* ------------------------------------------------------------ run
RunTestDoWhile(flag) == IF flag /\ spins > 0 THEN "log" ELSE "call_spin"

\* while not rospy.is_shutdown(): the place run() goes to on reading flag.
RunTestNext(flag) == IF flag THEN "log" ELSE "call_spin"

RunEnter ==
    /\ pc = "ready"
    /\ pc' = "test"
    /\ entryFlag' = shutdown
    /\ spins' = 0
    /\ call' = Call("run", "", None, FALSE, 0, "none", store, "running", NoReturn, <<>>)
    /\ UNCHANGED <<node, store, shutdown, observed, histVars, concVars>>

RunTest ==
    /\ pc = "test"
    /\ observed' = shutdown
    /\ pc' = RunTestNext(shutdown)
    /\ UNCHANGED <<node, store, call, shutdown, entryFlag, spins, histVars, concVars>>

\* rospy.spin() is entered.
SpinCall ==
    /\ pc = "call_spin"
    /\ pc' = "spinning"
    /\ spins' = spins + 1
    /\ UNCHANGED <<node, store, call, shutdown, observed, entryFlag, histVars, concVars>>

\* rospy.spin() returns: once ROS is shut down, and, for the first MaxSpins
\* calls, at any time before.
SpinReturn ==
    /\ pc = "spinning"
    /\ shutdown \/ spins < MaxSpins
    /\ pc' = "test"
    /\ UNCHANGED <<node, store, call, runVars, histVars, concVars>>

\* rospy.loginfo("[{}] Shutting down..."), then run() returns.
RunLog ==
    /\ pc = "log"
    /\ pc' = "done"
    /\ call' = [call EXCEPT !.outcome = "returned", !.ret = None,
                            !.msgs = @ \o <<Msg("info", "shutting_down", get_name, "", <<>>)>>]
    /\ UNCHANGED <<node, store, runVars, histVars, concVars>>

\* The shutdown flag is set from outside (a signal, rospy.signal_shutdown)
\* and is never cleared.
ShutdownSignal ==
    /\ ~shutdown
    /\ shutdown' = TRUE
    /\ UNCHANGED <<pc, node, store, call, observed, entryFlag, spins, histVars, concVars>>

RunInit == Init /\ store = [k \in Names |-> Absent]

RunNext ==
    \/ Construct
    \/ RunEnter
    \/ RunTest
    \/ SpinCall
    \/ SpinReturn
    \/ RunLog
    \/ ShutdownSignal

\* The thread of run() keeps running, and every call of rospy.spin returns
\* once ROS is shut down; nothing forces the shutdown itself.
RunSpec ==
    /\ RunInit
    /\ [][RunNext]_vars
    /\ WF_vars(RunTest)
    /\ WF_vars(SpinCall)
    /\ WF_vars(SpinReturn)
    /\ WF_vars(RunLog)

\* ------------------------------------------------------------ history
\* One client calling get_param and set_param, with the history of its
\* calls kept beside the store.  Only a call that returned is recorded.
\* The program starts on a parameter server holding any store; the history
\* starts with that store as the initial one and no call recorded.
HistInit ==
    /\ pc = "new"
    /\ node = NoNode
    /\ store \in Stores
    /\ initial = store
    /\ call = NoCall
    /\ shutdown = FALSE
    /\ observed = FALSE
    /\ entryFlag = FALSE
    /\ spins = 0
    /\ lastSet = [k \in Names |-> Absent]
    /\ firstDef = [k \in Names |-> Absent]
    /\ gp = NoFrame
    /\ intervened = FALSE

GetParamTracked ==
    /\ pc = "new"
    /\ \E name \in Names, default \in Values \cup {None},
          fail \in {"none", "read", "write"} :
          /\ DoGetParam(name, default, TRUE, DefaultLimit, fail)
          /\ firstDef' =
                 IF /\ call'.outcome = "returned"
                    /\ default # None
                    /\ store[name] = Absent
                    /\ firstDef[name] = Absent
                 THEN [firstDef EXCEPT ![name] = default]
                 ELSE firstDef
    /\ UNCHANGED <<pc, node, runVars, initial, lastSet, concVars>>

SetParamTracked ==
    /\ pc = "new"
    /\ \E name \in Names, value \in Values, fail \in {"none", "write"} :
          /\ DoSetParam(name, value, TRUE, DefaultLimit, fail)
          /\ lastSet' = IF call'.outcome = "returned"
                        THEN [lastSet EXCEPT ![name] = value]
                        ELSE lastSet
    /\ UNCHANGED <<pc, node, runVars, initial, firstDef, concVars>>

HistNext == GetParamTracked \/ SetParamTracked

HistSpec == HistInit /\ [][HistNext]_vars

\* ------------------------------------------------------------ other clients
\* get_param taken one access of the parameter server at a time, while
\* other clients of the same server set parameters.
AfterReadAlwaysWrites(frame, v, me) ==
    IF frame.default # None
    THEN [frame EXCEPT !.param = frame.default, !.pc = "write"]
    ELSE IF v # Absent
    THEN [frame EXCEPT !.param = v, !.pc = "return",
                       !.msgs = <<Msg("info", "value", me, frame.name,
                                     Truncate(FormatValue(v), DefaultLimit))>>]
    ELSE [frame EXCEPT !.param = frame.default, !.pc = "return",
                       !.msgs = <<Msg("warn", "no_default", me, frame.name, <<>>)>>]

\* The frame after param = rospy.get_param(name) answered v (Absent: KeyError).
AfterRead(frame, v, me) ==
    IF v # Absent
    THEN [frame EXCEPT !.param = v, !.pc = "return",
                       !.msgs = <<Msg("info", "value", me, frame.name,
                                     Truncate(FormatValue(v), DefaultLimit))>>]
    ELSE IF frame.default = None
    THEN [frame EXCEPT !.param = frame.default, !.pc = "return",
                       !.msgs = <<Msg("warn", "no_default", me, frame.name, <<>>)>>]
    ELSE [frame EXCEPT !.param = frame.default, !.pc = "write"]

GetParamBegin ==
    /\ pc = "new"
    /\ gp.pc \in {"idle", "returned"}
    /\ \E name \in Names, default \in Values \cup {None} :
          gp' = [pc |-> "read", name |-> name, default |-> default,
                 param |-> NoReturn, msgs |-> <<>>]
    /\ intervened' = FALSE
    /\ UNCHANGED <<pc, node, store, call, runVars, histVars>>

GetParamRead ==
    /\ gp.pc = "read"
    /\ gp' = AfterRead(gp, rospy_get_param(store, gp.name), get_name)
    /\ intervened' = FALSE
    /\ UNCHANGED <<pc, node, store, call, runVars, histVars>>

\* rospy.set_param(name, default), then the warning.
GetParamWriteBack ==
    /\ gp.pc = "write"
    /\ store' = rospy_set_param(store, gp.name, gp.default)
    /\ gp' = [gp EXCEPT !.pc = "return",
                        !.msgs = <<Msg("warn", "using_default", get_name, gp.name,
                                      FormatValue(gp.default))>>]
    /\ intervened' = FALSE
    /\ UNCHANGED <<pc, node, call, runVars, histVars>>

\* return param
GetParamReturn ==
    /\ gp.pc = "return"
    /\ gp' = [gp EXCEPT !.pc = "returned"]
    /\ call' = Call("get", gp.name, gp.default, TRUE, DefaultLimit, "none", store,
                    "returned", gp.param, gp.msgs)
    /\ UNCHANGED <<pc, node, store, intervened, runVars, histVars>>

\* Another client calls rospy.set_param on the same server.
OtherClientSet ==
    /\ \E name \in Names, value \in Values :
          /\ store' = rospy_set_param(store, name, value)
          /\ intervened' = (intervened \/ (gp.pc # "idle" /\ name = gp.name))
    /\ UNCHANGED <<pc, node, call, gp, runVars, histVars>>

ConcNext ==
    \/ GetParamBegin
    \/ GetParamRead
    \/ GetParamWriteBack
    \/ GetParamReturn
    \/ OtherClientSet

ConcSpec == Init /\ [][ConcNext]_vars

\* ------------------------------------------------------------ claims
\* The latest call is a get_param on name call.name that found it stored / missing.
GetFoundPresent == call.op = "get" /\ call.fail # "read" /\ call.pre[call.name] # Absent
GetFoundAbsent == call.op = "get" /\ call.fail # "read" /\ call.pre[call.name] = Absent

\* C1: get_param on a name the store holds returns exactly the stored value
\* (not the default, not the string it logged) and leaves the store as it was,
\* whatever default, verbose and limit are.
C1_PresentReturnsStored ==
    GetFoundPresent =>
        /\ call.outcome = "returned"
        /\ call.ret = call.pre[call.name]
        /\ store = call.pre

C1_Witness ==
    /\ GetFoundPresent
    /\ call.pre[call.name] = PyStr(Word(MaxLen))
    /\ call.arg = PyInt(0)
    /\ call.verbose
    /\ call.limit = 1
    /\ call.ret = PyStr(Word(MaxLen))

\* C2: get_param on a name the store lacks, with a default other than None
\* (falsy defaults included), returns the default and leaves the store holding
\* exactly the default under that name and every other name as it was.
C2_AbsentWritesDefault ==
    (GetFoundAbsent /\ call.arg # None /\ call.fail = "none") =>
        /\ call.outcome = "returned"
        /\ call.ret = call.arg
        /\ store[call.name] = call.arg
        /\ \A k \in Names \ {call.name} : store[k] = call.pre[k]

C2_Witness ==
    /\ GetFoundAbsent
    /\ call.arg = PyInt(0)
    /\ call.ret = PyInt(0)
    /\ store[call.name] = PyInt(0)
    /\ \E k \in Names \ {call.name} : store[k] = PyStr(Word(MaxLen))

\* C3: get_param on a name the store lacks, with no default (None), returns
\* None, raises nothing, writes nothing (the name is still missing and the
\* store is as it was) and logs the warning that no default was given.
C3_AbsentNoDefault ==
    (GetFoundAbsent /\ call.arg = None) =>
        /\ call.outcome = "returned"
        /\ call.ret = None
        /\ store = call.pre
        /\ store[call.name] = Absent
        /\ call.msgs = <<Msg("warn", "no_default", get_name, call.name, <<>>)>>

C3_Witness ==
    /\ GetFoundAbsent
    /\ call.arg = None
    /\ call.ret = None
    /\ call.verbose
    /\ Len(call.msgs) = 1

\* The latest call logged the string of a value: set_param that returned, or
\* get_param with verbose true on a stored name.
LogsValue ==
    \/ call.op = "set" /\ call.outcome = "returned"
    \/ GetFoundPresent /\ call.verbose

LoggedValue == IF call.op = "set" THEN call.arg ELSE call.pre[call.name]

\* The first k characters of s, for k from 0 up.
FirstChars(s, k) == [i \in 1..(IF k > Len(s) THEN Len(s) ELSE k) |-> s[i]]

\* C4 as stated: for every limit, the logged string is the first limit
\* characters plus "..." when the formatted value is longer than limit, and
\* the formatted value itself otherwise.  It is taken here at the limits from
\* 0 up, where "the first limit characters" has one reading.
C4_TruncatesForEveryLimit ==
    (LogsValue /\ call.limit >= 0) =>
        /\ Len(call.msgs) = 1
        /\ LET f == FormatValue(LoggedValue)
           IN  call.msgs[1].text =
                   IF Len(f) > call.limit
                   THEN FirstChars(f, call.limit) \o <<".", ".", ".">>
                   ELSE f

\* C4 amended: for every limit greater than 0 the logged string is the first
\* limit characters plus "..." when the formatted value is longer than limit;
\* when limit is 0 or negative, or the formatted value is no longer than
\* limit, the logged string is the formatted value itself.
C4_TruncatesForPositiveLimit ==
    LogsValue =>
        /\ Len(call.msgs) = 1
        /\ call.msgs[1].what = "value"
        /\ LET f == FormatValue(LoggedValue)
               text == call.msgs[1].text
           IN  IF call.limit > 0 /\ Len(f) > call.limit
               THEN /\ Len(text) = call.limit + 3
                    /\ \A i \in 1..call.limit : text[i] = f[i]
                    /\ \A i \in (call.limit + 1)..(call.limit + 3) : text[i] = "."
               ELSE text = f

C4_Witness ==
    /\ call.op = "set"
    /\ call.outcome = "returned"
    /\ call.arg = PyStr(Word(MaxLen))
    /\ call.limit = MaxLen - 1
    /\ Len(call.msgs[1].text) = MaxLen + 2

\* C5: after set_param(name, value) the store holds exactly value under name
\* (not the string that was logged), every other name is as it was, and a
\* get_param(name) that follows returns value.
C5_SetThenGet ==
    (call.op = "set" /\ call.fail = "none") =>
        /\ call.outcome = "returned"
        /\ store[call.name] = call.arg
        /\ \A k \in Names \ {call.name} : store[k] = call.pre[k]
        /\ \A default \in Values \cup {None}, verbose \in BOOLEAN, limit \in Limits :
              LET r == GetParamOutcome(store, get_name, call.name, default, verbose,
                                       limit, "none")
              IN  r.outcome = "returned" /\ r.ret = call.arg /\ r.store = store

C5_Witness ==
    /\ call.op = "set"
    /\ call.outcome = "returned"
    /\ call.arg = PyStr(Word(MaxLen))
    /\ call.limit = 1
    /\ call.pre[call.name] = PyInt(0)
    /\ store[call.name] = PyStr(Word(MaxLen))

\* C7: a failure other than the missing key propagates: a failed read in
\* get_param gives no value, no write and no log; a failed write in set_param
\* or in get_param's write-back of the default propagates with no log; a
\* failed registration in the constructor propagates with nothing logged.
C7_FailuresPropagate ==
    /\ (call.op = "get" /\ call.fail = "read") =>
           /\ call.outcome = "raised"
           /\ call.ret = NoReturn
           /\ store = call.pre
           /\ call.msgs = <<>>
    /\ (call.op = "set" /\ call.fail = "write") =>
           /\ call.outcome = "raised"
           /\ call.msgs = <<>>
    /\ (GetFoundAbsent /\ call.arg # None /\ call.fail = "write") =>
           /\ call.outcome = "raised"
           /\ call.ret = NoReturn
           /\ call.msgs = <<>>
    /\ (call.op = "init" /\ call.fail = "init") =>
           /\ call.outcome = "raised"
           /\ call.msgs = <<>>
           /\ pc = "raised"

C7_Witness ==
    /\ GetFoundAbsent
    /\ call.arg = PyStr(Word(MaxLen))
    /\ call.fail = "write"
    /\ call.outcome = "raised"
    /\ node.registered

\* C8: a get_param that returns logs at most one message: on a stored name
\* one info message for that name when verbose is true and nothing when it is
\* false; on a missing name exactly one warning and no info message whatever
\* verbose is, "using default" (the default then being in the store) when
\* default is not None and "no default given" otherwise.
C8_OneMessagePerOutcome ==
    (call.op = "get" /\ call.outcome = "returned") =>
        /\ Len(call.msgs) <= 1
        /\ (GetFoundPresent /\ call.verbose) =>
               /\ Len(call.msgs) = 1
               /\ call.msgs[1].level = "info"
               /\ call.msgs[1].what = "value"
               /\ call.msgs[1].name = call.name
        /\ (GetFoundPresent /\ ~call.verbose) => call.msgs = <<>>
        /\ GetFoundAbsent =>
               /\ Len(call.msgs) = 1
               /\ call.msgs[1].level = "warn"
               /\ call.msgs[1].name = call.name
               /\ call.msgs[1].what =
                      IF call.arg = None THEN "no_default" ELSE "using_default"
               /\ call.arg # None => store[call.name] = call.arg

C8_Witness ==
    /\ GetFoundAbsent
    /\ call.outcome = "returned"
    /\ call.verbose
    /\ call.arg = PyStr(Word(MaxLen))
    /\ call.msgs[1].what = "using_default"

InRun == pc \in {"test", "call_spin", "spinning", "log"}

ShutdownMsgs == {i \in 1..Len(call.msgs) : call.msgs[i].what = "shutting_down"}

\* C6: run() calls rospy.spin only when it has just read the shutdown flag as
\* false, goes on until it reads the flag as true, then logs the shutdown
\* message exactly once and returns; the message is never logged while the
\* flag is false, spin is never called when the flag was already true at
\* entry, and once the flag is set, every spin call returning, run() ends.
C6_RunLoop ==
    /\ [][spins' = spins + 1 => (pc = "call_spin" /\ observed = FALSE)]_vars
    /\ [](pc \in {"log", "done"} => observed = TRUE)
    /\ [](call.op = "run" /\ pc # "done" => ShutdownMsgs = {})
    /\ [](pc = "done" =>
            /\ call.outcome = "returned"
            /\ Cardinality(ShutdownMsgs) = 1)
    /\ []((call.op = "run" /\ ShutdownMsgs # {}) => shutdown)
    /\ []((call.op = "run" /\ entryFlag) => spins = 0)
    /\ ((InRun /\ shutdown) ~> (pc = "done"))

C6_Witness ==
    /\ pc = "done"
    /\ ~entryFlag
    /\ spins = 2
    /\ Cardinality(ShutdownMsgs) = 1

\* What the history of calls says the store holds under k.
Expected(k) ==
    IF lastSet[k] # Absent THEN lastSet[k]
    ELSE IF firstDef[k] # Absent THEN firstDef[k]
    ELSE initial[k]

\* C9: with one client, counting the calls that returned: get_param never
\* changes or removes a value that is stored, so a default sticks (once a
\* get_param wrote d1 under a missing name, every later get_param on that name
\* returns d1 whatever its default, until a set_param on it), and the store
\* holds under every name the value of the latest set_param on it, else the
\* default of the first get_param with a default other than None that found
\* it missing, else its initial value or nothing.
C9_StickyDefault ==
    /\ \A k \in Names : store[k] = Expected(k)
    /\ call.op = "get" =>
           \A k \in Names : call.pre[k] # Absent => store[k] = call.pre[k]
    /\ (/\ call.op = "get"
        /\ call.outcome = "returned"
        /\ firstDef[call.name] # Absent
        /\ lastSet[call.name] = Absent) => call.ret = firstDef[call.name]

C9_Witness ==
    /\ call.op = "get"
    /\ call.outcome = "returned"
    /\ call.pre[call.name] # Absent
    /\ initial[call.name] = Absent
    /\ lastSet[call.name] = Absent
    /\ firstDef[call.name] = PyInt(0)
    /\ call.arg = PyStr(Word(MaxLen))
    /\ call.ret = PyInt(0)
    /\ \E k \in Names \ {call.name} :
          initial[k] = PyStr(Word(MaxLen)) /\ lastSet[k] = Absent /\ store[k] = initial[k]

WriteBackStep == gp.pc = "write" /\ gp'.pc = "return"
ReturnStep == gp.pc = "return" /\ gp'.pc = "returned"

\* C10 as stated: beside other clients, get_param with a default other than
\* None writes the default only over a missing name, never over a value
\* another client stored since the failed read, and the value it returns is
\* the value the store holds under the name when it returns.
C10_NeverReplaces ==
    /\ [][WriteBackStep => store[gp.name] = Absent]_vars
    /\ [][(ReturnStep /\ gp.default # None) => gp.param = store[gp.name]]_vars

\* C10 amended: get_param with a default other than None writes the default
\* whenever its own read found the name missing, also over a value another
\* client stored since that read; it writes over a missing name, and returns
\* the value the store holds under the name when it returns, provided no
\* other client wrote that name after get_param's last access to the store.
C10_ReplacesOnlyWhenRaced ==
    /\ [][WriteBackStep =>
            /\ gp.param = gp.default
            /\ gp.default # None
            /\ store'[gp.name] = gp.default
            /\ ~intervened => store[gp.name] = Absent]_vars
    /\ [][(ReturnStep /\ gp.default # None /\ ~intervened) =>
            gp.param = store[gp.name]]_vars

C10_Witness ==
    /\ gp.pc = "returned"
    /\ gp.default = PyInt(0)
    /\ gp.param = PyInt(0)
    /\ ~intervened
    /\ store[gp.name] = PyInt(0)
    /\ Len(gp.msgs) = 1
    /\ gp.msgs[1].what = "using_default"
    /\ \E k \in Names \ {gp.name} : store[k] # call.pre[k]

====
